---- MODULE Spec2Model ----
(***************************************************************************)
(* Model of the meal-match swipe / match pipeline: the swipes and matches  *)
(* tables with their unique constraints and the check_for_match trigger,   *)
(* the client hook useSwipes.recordSwipe, the SwipeScreen handlers, the    *)
(* useRealtime subscription and the notification sender.                   *)
(*                                                                         *)
(* One action is one database statement (or realtime callback) together    *)
(* with the client code that runs between that await and the next one.     *)
(* A swipe insert is a READ COMMITTED transaction: the statement and its   *)
(* AFTER INSERT trigger run first, seeing only committed rows, and the     *)
(* rows it wrote become visible at commit.                                 *)
(***************************************************************************)
EXTENDS Integers, Sequences, FiniteSets, TLC

\* ---- bounds ----
NumRecipes == 1
MaxCalls == 2
MaxFaults == 1
MaxToggles == 2
MaxLibCalls == 3
MaxNotifications == 2
MaxCouples == 2
MaxJoins == 2
MaxCrossCalls == 3
MaxChannels == 3
NumQueueRecipes == 3
PageSize == 2
MaxFetches == 4

\* ---- universe ----
Users == {"A", "B"}
Recipes == 1..NumRecipes
\* the recipes table as the queue reads it, in created_at descending order
QueueRecipes == 1..NumQueueRecipes
CoupleIds == {"G1"}
UnknownCouple == "G0"
NULL == "null"
\* the two partners and a third account
Actors == Users \cup {"C"}
\* every account: the third account's partner too
Everyone == Actors \cup {"D"}
\* couple ids; a couple's invite code is unique, so the id stands for it too
PairIds == {"G" \o ToString(i) : i \in 1..MaxCouples}
\* invite codes as typed into the pairing screen
TypedCodes == PairIds \cup {"g1", UnknownCouple}

VARIABLES
  couples,      \* couples table: couple id -> [user1_id, user2_id]
  swipes,       \* swipes table, committed rows in commit order
  matches,      \* matches table, committed rows in commit order (id = index)
  call,         \* per user: the recordSwipe call in flight
  lastResult,   \* per user: the SwipeResult of the last finished recordSwipe
  nCalls,       \* per user: recordSwipe calls finished so far
  matchReports, \* per recipe: calls that returned isMatch = true with a match
  animCount,    \* per user, recipe: setMatchAnimation({visible: true}) calls
  chan,         \* per user: state of the useRealtime channel
  inbox,        \* per user: INSERT payloads received, detail fetch pending
  owed,         \* per user: match ids inserted while the channel was SUBSCRIBED
  newMatchCalls,\* per user: match ids onNewMatch was invoked with
  dropped,      \* per user: match ids whose detail fetch failed in the callback
  sent,         \* envelopes submitted to the push gateway
  faults,       \* storage faults injected so far
  connectionState, \* per user: useRealtime connectionState {connected, error}
  favCache,     \* per user: useMatches' local copy of is_favorite, by match id
  detail,       \* per user: RecipeDetailScreen {matchId, isFavorite}
  nToggles,     \* toggleFavorite updates sent so far
  libCall,      \* per user: the lib/supabase.recordSwipe call in flight
  libResult,    \* per user: the result of the last lib recordSwipe
  nLib,         \* swipes inserts requested through lib recordSwipe so far
  profiles,     \* profiles table: user id -> [push_token]
  notif,        \* the sendMatchNotification call in flight
  notifLog,     \* finished sendMatchNotification calls, oldest first
  store,        \* per actor: authStore {couple, isPaired}
  joinCall,     \* per actor: the acceptInviteCode / joinCouple call in flight
  joinLog,      \* finished acceptInviteCode / joinCouple calls
  rlsCouples,   \* row level security is enabled on the couples table
  hook,         \* one useRealtime instance: props, `channel` state, closures
  channels,     \* the channels the instance created, oldest first
  hookConn,     \* the instance's connectionState {connected, error}
  deliveries,   \* onNewMatch calls made for the latest INSERT on matches
  qprops,       \* useRecipeQueue props {userId, coupleId}
  queue,        \* useRecipeQueue `recipes` state: recipe ids in order
  paging,       \* useRecipeQueue {offset, hasMore, loading}
  fetches,      \* fetchRecipes calls in flight
  issued,       \* fetchRecipes calls made so far; a call's id is its rank
  lastSwiped,   \* recipes the user had swiped when the latest call was made
  lastApplied   \* id of the call whose result was applied last

connVars == <<connectionState>>
favVars == <<favCache, detail, nToggles>>
libVars == <<libCall, libResult, nLib>>
notifVars == <<profiles, notif, notifLog>>
pairVars == <<store, joinCall, joinLog, rlsCouples>>
hookVars == <<hook, channels, hookConn, deliveries>>
queueVars == <<qprops, queue, paging, fetches, issued, lastSwiped, lastApplied>>

vars == <<couples, swipes, matches, call, lastResult, nCalls, matchReports,
          animCount, chan, inbox, owed, newMatchCalls, dropped, sent,
          faults, connVars, favVars, libVars, notifVars, pairVars,
          hookVars, queueVars>>

\* ---- tables ----

\* select from swipes where user_id, recipe_id and couple_id match finds a row
SwipeExists(uid, rid, cid) ==
  \E i \in 1..Len(swipes) :
    /\ swipes[i].user_id = uid
    /\ swipes[i].recipe_id = rid
    /\ swipes[i].couple_id = cid

\* Faulty variant: the swipes table without its unique constraint
unique_user_recipe_swipe_off(uid, rid, cid) == FALSE

\* swipes.unique_user_recipe_swipe UNIQUE (user_id, recipe_id, couple_id): an
\* insert of this key conflicts
unique_user_recipe_swipe(uid, rid, cid) == SwipeExists(uid, rid, cid)

\* select from matches where couple_id = cid and recipe_id = rid finds a row
MatchExists(cid, rid) ==
  \E i \in 1..Len(matches) :
    /\ matches[i].couple_id = cid
    /\ matches[i].recipe_id = rid

\* Faulty variant: the matches table without its unique constraint
unique_couple_recipe_match_off(cid, rid) == FALSE

\* matches.unique_couple_recipe_match UNIQUE (couple_id, recipe_id): an
\* insert of this key conflicts
unique_couple_recipe_match(cid, rid) == MatchExists(cid, rid)

MatchIdOf(cid, rid) ==
  CHOOSE i \in 1..Len(matches) :
    matches[i].couple_id = cid /\ matches[i].recipe_id = rid

\* Faulty variant: the match is filed under the first couple of the table
MatchRow_firstCouple(cid, rid) ==
  [couple_id |-> CHOOSE c \in DOMAIN couples : TRUE, recipe_id |-> rid,
   is_favorite |-> FALSE, updated_at |-> 0]

\* A new matches row: is_favorite DEFAULT FALSE, updated_at DEFAULT NOW().
\* updated_at is kept as the number of updates the row has received since.
MatchRow(cid, rid) ==
  [couple_id |-> cid, recipe_id |-> rid, is_favorite |-> FALSE, updated_at |-> 0]

\* Faulty variant: the policy checks the couple exists, not that the user is in it
SwipeInsertPolicy_anycouple(authUid, uid, cid) ==
  /\ authUid = uid
  /\ cid \in DOMAIN couples

\* RLS policy "Users can insert their own swipes"
SwipeInsertPolicy(authUid, uid, cid) ==
  /\ authUid = uid
  /\ cid \in DOMAIN couples
  /\ (couples[cid].user1_id = authUid \/ couples[cid].user2_id = authUid)

\* RLS policy "Users can insert matches for their couple"
MatchInsertPolicy(authUid, cid) ==
  /\ cid \in DOMAIN couples
  /\ (couples[cid].user1_id = authUid \/ couples[cid].user2_id = authUid)

\* getCurrentUserCouple: the couple whose user1_id or user2_id is the user
getCurrentUserCouple(u) ==
  IF \E c \in DOMAIN couples : couples[c].user1_id = u \/ couples[c].user2_id = u
  THEN CHOOSE c \in DOMAIN couples : couples[c].user1_id = u \/ couples[c].user2_id = u
  ELSE NULL

\* SwipeScreen.loadUserData: the partner id kept by the screen
PartnerId(u) ==
  LET c == getCurrentUserCouple(u)
  IN IF c = NULL THEN NULL
     ELSE IF couples[c].user1_id = u THEN couples[c].user2_id
          ELSE couples[c].user1_id

\* Direction of the committed swipe of uid on rid in cid, NULL when none
SwipeDirection(uid, rid, cid) ==
  IF SwipeExists(uid, rid, cid)
  THEN LET i == CHOOSE i \in 1..Len(swipes) :
                  /\ swipes[i].user_id = uid
                  /\ swipes[i].recipe_id = rid
                  /\ swipes[i].couple_id = cid
       IN swipes[i].direction
  ELSE NULL

\* Faulty variant: the trigger inserts a match on every 'like', partner or not
check_for_match_nopartner(new) == new.direction = "like"

\* Faulty variant: the trigger accepts any swipe of the partner, 'dislike' included
check_for_match_anydirection(new) ==
  /\ new.direction = "like"
  /\ LET partner_id == IF couples[new.couple_id].user1_id = new.user_id
                       THEN couples[new.couple_id].user2_id
                       ELSE couples[new.couple_id].user1_id
     IN SwipeDirection(partner_id, new.recipe_id, new.couple_id) # NULL

\* Trigger function check_for_match(NEW): TRUE when it reaches the
\* INSERT INTO matches statement
check_for_match(new) ==
  /\ new.direction = "like"
  /\ LET partner_id == IF couples[new.couple_id].user1_id = new.user_id
                       THEN couples[new.couple_id].user2_id
                       ELSE couples[new.couple_id].user1_id
         partner_swipe_direction ==
           SwipeDirection(partner_id, new.recipe_id, new.couple_id)
     IN partner_swipe_direction = "like"

\* SwipeResult returned by recordSwipe (match: id of the row, 0 for null)
SwipeResult(c, swipe, isMatch, match, error) ==
  [recipe |-> c.recipe, direction |-> c.direction, swipe |-> swipe,
   isMatch |-> isMatch, match |-> match, error |-> error]

Idle == [pc |-> "idle", recipe |-> 0, direction |-> NULL, trigMatch |-> FALSE,
         partnerLiked |-> FALSE]

NoResult == SwipeResult(Idle, FALSE, FALSE, 0, NULL)

\* useMatches before fetchMatches: `matches` state is []
NoFavourites == [known |-> {}, fav |-> {}]

\* RecipeDetailScreen opened without a matchId: isFavorite state is false
NoDetail == [matchId |-> 0, isFavorite |-> FALSE]

LibIdle == [pc |-> "idle", user_id |-> NULL, recipe |-> 0, couple |-> NULL,
            direction |-> NULL, trigMatch |-> FALSE]

\* lib recordSwipe result {swipe, error}, with the user_id and couple_id
\* that were submitted and the number of results so far
LibResult(n, uid, cid, swipe, error) ==
  [n |-> n, user_id |-> uid, couple_id |-> cid, swipe |-> swipe, error |-> error]

NoLibResult == LibResult(0, NULL, NULL, FALSE, NULL)

\* A sendMatchNotification call: its arguments, the push_token stored for the
\* recipient when it looked, whether the lookup failed, and the envelopes it
\* has submitted
NotifIdle == [pc |-> "idle", recipient |-> NULL, recipe |-> 0, token |-> NULL,
              lookupError |-> FALSE, envelopes |-> 0]

\* authStore's couple: null
NoCouple == [id |-> NULL, user1_id |-> NULL, user2_id |-> NULL]

\* authStore's pairing state before any couple was loaded
NoStore == [couple |-> NoCouple, isPaired |-> FALSE]

\* An acceptInviteCode (viaStore) or joinCouple call: idle, or between its
\* select and its update of the couple `target`
JoinIdle == [pc |-> "idle", target |-> NULL, viaStore |-> FALSE]

\* useRealtime as SwipeScreen mounts it, before the couple is loaded:
\* coupleId null, enabled false, `channel` state null (0). `captured` is the
\* `channel` that the memoised subscribe and the effect's cleanup closed
\* over; `op` is the last operation on the hook.
Mounted == [mounted |-> TRUE, coupleId |-> NULL, enabled |-> FALSE,
            channel |-> 0, captured |-> 0, op |-> "mount"]

\* A fetchRecipes(currentOffset, append) call with the props its closure
\* holds, before its swipes query
FetchCall(id, props, currentOffset, append) ==
  [id |-> id, userId |-> props.userId, coupleId |-> props.coupleId,
   offset |-> currentOffset, append |-> append, pc |-> "swipes", swiped |-> {}]

\* The state after construction, with the given couples table
InitWith(tables) ==
  /\ couples \in tables
  /\ swipes = <<>>
  /\ matches = <<>>
  /\ call = [u \in Everyone |-> Idle]
  /\ lastResult = [u \in Everyone |-> NoResult]
  /\ nCalls = [u \in Everyone |-> 0]
  /\ matchReports = [r \in Recipes |-> 0]
  /\ animCount = [u \in Everyone |-> [r \in Recipes |-> 0]]
  /\ chan = [u \in Users |-> "none"]
  /\ inbox = [u \in Users |-> {}]
  /\ owed = [u \in Users |-> {}]
  /\ newMatchCalls = [u \in Users |-> {}]
  /\ dropped = [u \in Users |-> {}]
  /\ sent = <<>>
  /\ faults = 0
  /\ connectionState = [u \in Users |-> [connected |-> FALSE, error |-> NULL]]
  /\ favCache = [u \in Users |-> NoFavourites]
  /\ detail = [u \in Users |-> NoDetail]
  /\ nToggles = 0
  /\ libCall = [u \in Users |-> LibIdle]
  /\ libResult = [u \in Users |-> NoLibResult]
  /\ nLib = 0
  /\ profiles = [u \in Users |-> [push_token |-> NULL]]
  /\ notif = NotifIdle
  /\ notifLog = <<>>
  /\ store = [u \in Actors |-> NoStore]
  /\ joinCall = [u \in Actors |-> JoinIdle]
  /\ joinLog = {}
  /\ rlsCouples = TRUE
  /\ hook = Mounted
  /\ channels = <<>>
  /\ hookConn = [connected |-> FALSE, error |-> NULL]
  /\ deliveries = 0
  /\ qprops = [userId |-> "", coupleId |-> ""]
  /\ queue = <<>>
  /\ paging = [offset |-> 0, hasMore |-> TRUE, loading |-> TRUE]
  /\ fetches = {FetchCall(1, [userId |-> "", coupleId |-> ""], 0, FALSE)}
  /\ issued = 1
  /\ lastSwiped = {}
  /\ lastApplied = 0

\* One couple, A with partner B or still waiting for a partner
Init == InitWith([CoupleIds -> [user1_id : {"A"}, user2_id : {"B", NULL}]])

\* Two complete couples
TwoCouples ==
  ("G1" :> [user1_id |-> "A", user2_id |-> "B"])
    @@ ("G2" :> [user1_id |-> "C", user2_id |-> "D"])

InitCross == InitWith({TwoCouples})

\* ---- useSwipes.recordSwipe and the SwipeScreen handlers ----

\* handleSwipeRight: `if (result.isMatch && result.match)` after the error return
ShowsMatchAnimation(res) ==
  /\ res.direction = "like"
  /\ res.error = NULL
  /\ res.isMatch
  /\ res.match # 0

\* recordSwipe returns res to handleSwipeRight / handleSwipeLeft
Return(u, res) ==
  /\ call' = [call EXCEPT ![u] = Idle]
  /\ lastResult' = [lastResult EXCEPT ![u] = res]
  /\ nCalls' = [nCalls EXCEPT ![u] = @ + 1]
  /\ matchReports' = IF res.isMatch /\ res.match # 0
                     THEN [matchReports EXCEPT ![res.recipe] = @ + 1]
                     ELSE matchReports
  /\ animCount' = IF ShowsMatchAnimation(res)
                  THEN [animCount EXCEPT ![u][res.recipe] = @ + 1]
                  ELSE animCount

\* Realtime fan-out of an INSERT on matches to the channels filtered on cid
\* Faulty variant: the channel filter matches no couple
ChannelFilter_nomatch(v, cid) == FALSE

\* the channel of v carries the filter couple_id=eq.<couple of v>
ChannelFilter(v, cid) == getCurrentUserCouple(v) = cid

Publish(id, cid) ==
  /\ inbox' = [v \in Users |->
                 IF chan[v] = "subscribed" /\ ChannelFilter(v, cid)
                 THEN inbox[v] \cup {id} ELSE inbox[v]]
  /\ owed' = [v \in Users |->
                IF chan[v] = "subscribed" /\ getCurrentUserCouple(v) = cid
                THEN owed[v] \cup {id} ELSE owed[v]]

\* Another open transaction holds an uncommitted matches row with this key
PendingMatch(u, cid, rid) ==
  \E v \in DOMAIN call \ {u} :
    /\ call[v].pc = "txn"
    /\ call[v].trigMatch
    /\ call[v].recipe = rid
    /\ getCurrentUserCouple(v) = cid

\* handleSwipeRight / handleSwipeLeft call recordSwipe, which runs the
\* INSERT INTO swipes statement and its trigger
InsertSwipe(u, r, d, fault) ==
  LET cid == getCurrentUserCouple(u)
      \* partnerLiked: the partner's 'like' row was committed when the call began
      c == [pc |-> "txn", recipe |-> r, direction |-> d, trigMatch |-> FALSE,
            partnerLiked |-> cid # NULL /\ PartnerId(u) # NULL
                             /\ SwipeDirection(PartnerId(u), r, cid) = "like"]
      new == [user_id |-> u, recipe_id |-> r, couple_id |-> cid, direction |-> d]
  IN /\ call[u].pc = "idle"
     /\ nCalls[u] < MaxCalls
     /\ cid # NULL
     /\ fault => faults < MaxFaults
     /\ IF fault
        THEN /\ Return(u, SwipeResult(c, FALSE, FALSE, 0, "unavailable"))
             /\ faults' = faults + 1
        ELSE IF ~SwipeInsertPolicy(u, u, cid)
        THEN /\ Return(u, SwipeResult(c, FALSE, FALSE, 0, "rls"))
             /\ faults' = faults
        ELSE IF unique_user_recipe_swipe(u, r, cid)
        THEN /\ Return(u, SwipeResult(c, FALSE, FALSE, 0, "duplicate"))
             /\ faults' = faults
        ELSE /\ ~(check_for_match(new) /\ PendingMatch(u, cid, r))
             /\ call' = [call EXCEPT ![u] =
                  [c EXCEPT !.trigMatch = check_for_match(new)
                                          /\ ~unique_couple_recipe_match(cid, r)]]
             /\ UNCHANGED <<lastResult, nCalls, matchReports, animCount, faults>>
     /\ UNCHANGED <<couples, swipes, matches, chan, inbox, owed,
                    newMatchCalls, dropped, sent>>
     /\ UNCHANGED <<connVars, favVars, libVars, notifVars, pairVars, hookVars, queueVars>>

\* The swipe transaction commits; recordSwipe continues up to its next query
CommitSwipe(u) ==
  LET c == call[u]
      cid == getCurrentUserCouple(u)
      row == [user_id |-> u, recipe_id |-> c.recipe, couple_id |-> cid,
              direction |-> c.direction]
  IN /\ c.pc = "txn"
     /\ swipes' = Append(swipes, row)
     /\ IF c.trigMatch
        THEN /\ matches' = Append(matches, MatchRow(cid, c.recipe))
             /\ Publish(Len(matches) + 1, cid)
        ELSE UNCHANGED <<matches, inbox, owed>>
     /\ IF c.direction = "dislike" \/ PartnerId(u) = NULL
        THEN Return(u, SwipeResult(c, TRUE, FALSE, 0, NULL))
        ELSE /\ call' = [call EXCEPT ![u].pc = "partnerSwipe"]
             /\ UNCHANGED <<lastResult, nCalls, matchReports, animCount>>
     /\ UNCHANGED <<couples, chan, newMatchCalls, dropped, sent, faults>>
     /\ UNCHANGED <<connVars, favVars, libVars, notifVars, pairVars, hookVars, queueVars>>

\* recordSwipe: select the partner's 'like' swipe (maybeSingle)
CheckPartnerSwipe(u, fault) ==
  LET c == call[u]
      cid == getCurrentUserCouple(u)
  IN /\ c.pc = "partnerSwipe"
     /\ fault => faults < MaxFaults
     /\ IF fault
        THEN /\ Return(u, SwipeResult(c, TRUE, FALSE, 0, NULL))
             /\ faults' = faults + 1
        ELSE IF SwipeDirection(PartnerId(u), c.recipe, cid) = "like"
        THEN /\ call' = [call EXCEPT ![u].pc = "existingMatch"]
             /\ UNCHANGED <<lastResult, nCalls, matchReports, animCount, faults>>
        ELSE /\ Return(u, SwipeResult(c, TRUE, FALSE, 0, NULL))
             /\ faults' = faults
     /\ UNCHANGED <<couples, swipes, matches, chan, inbox, owed,
                    newMatchCalls, dropped, sent>>
     /\ UNCHANGED <<connVars, favVars, libVars, notifVars, pairVars, hookVars, queueVars>>

\* recordSwipe: select the existing match (the query's error is not read)
CheckExistingMatch(u, fault) ==
  LET c == call[u]
      cid == getCurrentUserCouple(u)
  IN /\ c.pc = "existingMatch"
     /\ fault => faults < MaxFaults
     /\ IF fault
        THEN /\ call' = [call EXCEPT ![u].pc = "createMatch"]
             /\ faults' = faults + 1
             /\ UNCHANGED <<lastResult, nCalls, matchReports, animCount>>
        ELSE IF MatchExists(cid, c.recipe)
        THEN /\ Return(u, SwipeResult(c, TRUE, TRUE, MatchIdOf(cid, c.recipe), NULL))
             /\ faults' = faults
        ELSE /\ call' = [call EXCEPT ![u].pc = "createMatch"]
             /\ UNCHANGED <<lastResult, nCalls, matchReports, animCount, faults>>
     /\ UNCHANGED <<couples, swipes, matches, chan, inbox, owed,
                    newMatchCalls, dropped, sent>>
     /\ UNCHANGED <<connVars, favVars, libVars, notifVars, pairVars, hookVars, queueVars>>

\* recordSwipe `if (matchError)`: the result returned when the match insert
\* fails; the branch does not look at what matchError is
MatchErrorResult(c, matchError) == SwipeResult(c, TRUE, FALSE, 0, NULL)

\* recordSwipe: INSERT INTO matches from the client
CreateMatch(u, fault) ==
  LET c == call[u]
      cid == getCurrentUserCouple(u)
  IN /\ c.pc = "createMatch"
     /\ fault => faults < MaxFaults
     /\ ~PendingMatch(u, cid, c.recipe)
     /\ IF fault
        THEN /\ Return(u, MatchErrorResult(c, "unavailable"))
             /\ faults' = faults + 1
             /\ UNCHANGED <<matches, inbox, owed>>
        ELSE IF ~MatchInsertPolicy(u, cid)
        THEN /\ Return(u, MatchErrorResult(c, "rls"))
             /\ UNCHANGED <<matches, inbox, owed, faults>>
        ELSE IF unique_couple_recipe_match(cid, c.recipe)
        THEN /\ Return(u, MatchErrorResult(c, "conflict"))
             /\ UNCHANGED <<matches, inbox, owed, faults>>
        ELSE /\ matches' = Append(matches, MatchRow(cid, c.recipe))
             /\ Publish(Len(matches) + 1, cid)
             /\ Return(u, SwipeResult(c, TRUE, TRUE, Len(matches) + 1, NULL))
             /\ faults' = faults
     /\ UNCHANGED <<couples, swipes, chan, newMatchCalls, dropped, sent>>
     /\ UNCHANGED <<connVars, favVars, libVars, notifVars, pairVars, hookVars, queueVars>>

\* ---- useRealtime ----

\* Faulty variant: the status callback reports connected whatever the status
StatusCallback_alwaysConnected(status) == [connected |-> TRUE, error |-> NULL]

\* subscribe((status) => ...): the connectionState the status callback sets
StatusCallback(status) ==
  IF status = "subscribed"
  THEN [connected |-> TRUE, error |-> NULL]
  ELSE [connected |-> FALSE, error |-> status]

\* useRealtime effect: subscribe() once the screen has loaded its couple
Subscribe(u) ==
  /\ getCurrentUserCouple(u) # NULL
  /\ chan[u] = "none"
  /\ chan' = [chan EXCEPT ![u] = "joining"]
  /\ UNCHANGED <<couples, swipes, matches, call, lastResult, nCalls, matchReports, animCount, inbox,
                 owed, newMatchCalls, dropped, sent, faults>>
  /\ UNCHANGED <<connVars, favVars, libVars, notifVars, pairVars, hookVars, queueVars>>

\* The channel reports SUBSCRIBED, CLOSED or CHANNEL_ERROR and the status
\* callback mirrors it into connectionState. The callback keeps no memory of
\* earlier statuses: a channel that reported CHANNEL_ERROR and is joined
\* again by the realtime client reports SUBSCRIBED to the same callback.
ChannelStatus(u, status) ==
  /\ \/ chan[u] \in {"joining", "errored"} /\ status = "subscribed"
     \/ chan[u] \in {"joining", "subscribed"} /\ status \in {"closed", "errored"}
  /\ chan' = [chan EXCEPT ![u] = status]
  /\ connectionState' = [connectionState EXCEPT ![u] = StatusCallback(status)]
  /\ UNCHANGED <<couples, swipes, matches, call, lastResult, nCalls, matchReports, animCount, inbox,
                 owed, newMatchCalls, dropped, sent, faults>>
  /\ UNCHANGED <<favVars, libVars, notifVars, pairVars, hookVars, queueVars>>

\* postgres_changes INSERT callback: fetch the match with its recipe, then
\* onNewMatch (SwipeScreen.handleNewMatch shows the animation)
OnInsertPayload(u, id, fault) ==
  /\ id \in inbox[u]
  /\ fault => faults < MaxFaults
  /\ inbox' = [inbox EXCEPT ![u] = @ \ {id}]
  /\ IF fault
     THEN /\ dropped' = [dropped EXCEPT ![u] = @ \cup {id}]
          /\ faults' = faults + 1
          /\ UNCHANGED <<newMatchCalls, animCount>>
     ELSE /\ newMatchCalls' = [newMatchCalls EXCEPT ![u] = @ \cup {id}]
          /\ animCount' = [animCount EXCEPT ![u][matches[id].recipe_id] = @ + 1]
          /\ UNCHANGED <<dropped, faults>>
  /\ UNCHANGED <<couples, swipes, matches, call, lastResult, nCalls,
                 matchReports, chan, owed, sent>>
  /\ UNCHANGED <<connVars, favVars, libVars, notifVars, pairVars, hookVars, queueVars>>

\* ---- lib/supabase.getMatches ----
getMatches(cid, fault) ==
  IF fault THEN {}
  ELSE {matches[i].recipe_id : i \in {j \in 1..Len(matches) : matches[j].couple_id = cid}}

\* ---- lib/supabase.recordSwipe: the swipes insert on its own ----

\* Another open swipes insert holds an uncommitted matches row with this key
LibPendingMatch(u, cid, rid) ==
  \E v \in Users \ {u} :
    /\ libCall[v].pc = "txn"
    /\ libCall[v].trigMatch
    /\ libCall[v].recipe = rid
    /\ libCall[v].couple = cid

\* INSERT INTO swipes (user_id, recipe_id, couple_id, direction) sent by the
\* client authenticated as u: RLS check, unique constraint, trigger
SwipesInsert(u, uid, r, d, cid, fault) ==
  LET new == [user_id |-> uid, recipe_id |-> r, couple_id |-> cid, direction |-> d]
      n == libResult[u].n + 1
  IN /\ libCall[u].pc = "idle"
     /\ nLib < MaxLibCalls
     /\ fault => faults < MaxFaults
     /\ nLib' = nLib + 1
     /\ IF fault
        THEN /\ libResult' = [libResult EXCEPT ![u] =
                  LibResult(n, uid, cid, FALSE, "unavailable")]
             /\ faults' = faults + 1
             /\ UNCHANGED libCall
        ELSE IF ~SwipeInsertPolicy(u, uid, cid)
        THEN /\ libResult' = [libResult EXCEPT ![u] =
                  LibResult(n, uid, cid, FALSE, "rls")]
             /\ UNCHANGED <<libCall, faults>>
        ELSE IF unique_user_recipe_swipe(uid, r, cid)
        THEN /\ libResult' = [libResult EXCEPT ![u] =
                  LibResult(n, uid, cid, FALSE, "duplicate")]
             /\ UNCHANGED <<libCall, faults>>
        ELSE /\ ~(check_for_match(new) /\ LibPendingMatch(u, cid, r))
             /\ libCall' = [libCall EXCEPT ![u] =
                  [pc |-> "txn", user_id |-> uid, recipe |-> r, couple |-> cid,
                   direction |-> d,
                   trigMatch |-> check_for_match(new)
                                 /\ ~unique_couple_recipe_match(cid, r)]]
             /\ UNCHANGED <<libResult, faults>>
     /\ UNCHANGED <<couples, swipes, matches, call, lastResult, nCalls,
                    matchReports, animCount, chan, inbox, owed, newMatchCalls,
                    dropped, sent>>
     /\ UNCHANGED <<connVars, favVars, notifVars, pairVars, hookVars, queueVars>>

\* lib recordSwipe(recipeId, direction, coupleId): getUser, then the insert
\* with user_id = user.id
recordSwipe(u, authenticated, r, d, cid, fault) ==
  IF authenticated
  THEN SwipesInsert(u, u, r, d, cid, fault)
  ELSE /\ libCall[u].pc = "idle"
       /\ nLib < MaxLibCalls
       /\ ~fault
       /\ nLib' = nLib + 1
       /\ libResult' = [libResult EXCEPT ![u] =
            LibResult(libResult[u].n + 1, NULL, cid, FALSE, "User not authenticated")]
       /\ UNCHANGED <<couples, swipes, matches, call, lastResult, nCalls,
                      matchReports, animCount, chan, inbox, owed, newMatchCalls,
                      dropped, sent, faults, libCall>>
       /\ UNCHANGED <<connVars, favVars, notifVars, pairVars, hookVars, queueVars>>

\* The same insert sent with the user_id of somebody else
InsertSwipeAsOther(u, uid, r, d, cid) ==
  /\ uid # u
  /\ SwipesInsert(u, uid, r, d, cid, FALSE)

\* The swipes insert commits: the swipe row and the trigger's match row
\* become visible and recordSwipe returns {swipe, error: null}
CommitSwipesInsert(u) ==
  LET c == libCall[u]
      row == [user_id |-> c.user_id, recipe_id |-> c.recipe,
              couple_id |-> c.couple, direction |-> c.direction]
  IN /\ c.pc = "txn"
     /\ swipes' = Append(swipes, row)
     /\ IF c.trigMatch
        THEN /\ matches' = Append(matches, MatchRow(c.couple, c.recipe))
             /\ Publish(Len(matches) + 1, c.couple)
        ELSE UNCHANGED <<matches, inbox, owed>>
     /\ libCall' = [libCall EXCEPT ![u] = LibIdle]
     /\ libResult' = [libResult EXCEPT ![u] =
          LibResult(libResult[u].n + 1, c.user_id, c.couple, TRUE, NULL)]
     /\ UNCHANGED <<couples, call, lastResult, nCalls, matchReports, animCount,
                    chan, newMatchCalls, dropped, sent, faults, nLib>>
     /\ UNCHANGED <<connVars, favVars, notifVars, pairVars, hookVars, queueVars>>

\* ---- favourites: useMatches and RecipeDetailScreen ----

\* useMatches.fetchMatches: select the couple's matches into the local list
fetchMatches(u, fault) ==
  LET cid == getCurrentUserCouple(u)
      ids == {i \in 1..Len(matches) : matches[i].couple_id = cid}
  IN /\ cid # NULL
     /\ fault => faults < MaxFaults
     /\ IF fault
        THEN /\ faults' = faults + 1
             /\ UNCHANGED favCache
        ELSE /\ favCache' = [favCache EXCEPT ![u] =
                  [known |-> ids, fav |-> {i \in ids : matches[i].is_favorite}]]
             /\ faults' = faults
     /\ UNCHANGED <<couples, swipes, matches, call, lastResult, nCalls,
                    matchReports, animCount, chan, inbox, owed, newMatchCalls,
                    dropped, sent, detail, nToggles>>
     /\ UNCHANGED <<connVars, libVars, notifVars, pairVars, hookVars, queueVars>>

\* Faulty variant: the favourite is written as an insert of a new row
UpdateIsFavorite_insert(id, newFavoriteStatus) ==
  Append(matches, [MatchRow(matches[id].couple_id, matches[id].recipe_id)
                     EXCEPT !.is_favorite = newFavoriteStatus])

\* update matches set is_favorite = newFavoriteStatus where id = matchId; the
\* BEFORE UPDATE trigger update_matches_updated_at sets updated_at = NOW()
UpdateIsFavorite(id, newFavoriteStatus) ==
  [matches EXCEPT ![id] = [@ EXCEPT !.is_favorite = newFavoriteStatus,
                                    !.updated_at = @ + 1]]

\* useMatches.toggleFavorite(matchId)
toggleFavorite(u, id, fault) ==
  LET newFavoriteStatus == ~(id \in favCache[u].fav)
  IN /\ id \in favCache[u].known
     /\ nToggles < MaxToggles
     /\ fault => faults < MaxFaults
     /\ IF fault
        THEN /\ faults' = faults + 1
             /\ UNCHANGED <<matches, favCache, nToggles>>
        ELSE /\ matches' = UpdateIsFavorite(id, newFavoriteStatus)
             /\ favCache' = [favCache EXCEPT ![u].fav =
                  IF newFavoriteStatus THEN @ \cup {id} ELSE @ \ {id}]
             /\ nToggles' = nToggles + 1
             /\ faults' = faults
     /\ UNCHANGED <<couples, swipes, call, lastResult, nCalls, matchReports,
                    animCount, chan, inbox, owed, newMatchCalls, dropped, sent,
                    detail>>
     /\ UNCHANGED <<connVars, libVars, notifVars, pairVars, hookVars, queueVars>>

\* RecipeDetailScreen opened from the matches list: fetchRecipeDetails reads
\* is_favorite of the match; when that query fails isFavorite stays false
fetchRecipeDetails(u, id, fault) ==
  /\ id \in favCache[u].known
  /\ fault => faults < MaxFaults
  /\ detail' = [detail EXCEPT ![u] =
       [matchId |-> id,
        isFavorite |-> IF fault THEN FALSE ELSE matches[id].is_favorite]]
  /\ faults' = IF fault THEN faults + 1 ELSE faults
  /\ UNCHANGED <<couples, swipes, matches, call, lastResult, nCalls,
                 matchReports, animCount, chan, inbox, owed, newMatchCalls,
                 dropped, sent, favCache, nToggles>>
  /\ UNCHANGED <<connVars, libVars, notifVars, pairVars, hookVars, queueVars>>

\* RecipeDetailScreen.toggleFavorite
detailToggleFavorite(u, fault) ==
  LET newFavoriteStatus == ~detail[u].isFavorite
  IN /\ detail[u].matchId # 0
     /\ nToggles < MaxToggles
     /\ fault => faults < MaxFaults
     /\ IF fault
        THEN /\ faults' = faults + 1
             /\ UNCHANGED <<matches, detail, nToggles>>
        ELSE /\ matches' = UpdateIsFavorite(detail[u].matchId, newFavoriteStatus)
             /\ detail' = [detail EXCEPT ![u].isFavorite = newFavoriteStatus]
             /\ nToggles' = nToggles + 1
             /\ faults' = faults
     /\ UNCHANGED <<couples, swipes, call, lastResult, nCalls, matchReports,
                    animCount, chan, inbox, owed, newMatchCalls, dropped, sent,
                    favCache>>
     /\ UNCHANGED <<connVars, libVars, notifVars, pairVars, hookVars, queueVars>>

\* ---- notifications ----

\* Faulty variant: the envelope is submitted a second time
sendMatchNotification_resend(recipientUserId, recipeName, push_token, lookupError) ==
  IF lookupError \/ push_token = NULL
  THEN <<>>
  ELSE <<[to |-> push_token, recipient |-> recipientUserId, recipe |-> recipeName],
         [to |-> push_token, recipient |-> recipientUserId, recipe |-> recipeName]>>

\* sendMatchNotification(recipientUserId, recipeName): the envelopes it
\* submits to the push gateway, given the recipient's stored push_token
sendMatchNotification(recipientUserId, recipeName, push_token, lookupError) ==
  IF lookupError \/ push_token = NULL
  THEN <<>>
  ELSE <<[to |-> push_token, recipient |-> recipientUserId, recipe |-> recipeName]>>

\* storePushToken(userId, token): update profiles set push_token
storePushToken(u, fault) ==
  /\ fault => faults < MaxFaults
  /\ profiles' = IF fault THEN profiles
                 ELSE [profiles EXCEPT ![u].push_token = "token"]
  /\ faults' = IF fault THEN faults + 1 ELSE faults
  /\ UNCHANGED <<couples, swipes, matches, call, lastResult, nCalls,
                 matchReports, animCount, chan, inbox, owed, newMatchCalls,
                 dropped, sent, notif, notifLog>>
  /\ UNCHANGED <<connVars, favVars, libVars, pairVars, hookVars, queueVars>>

\* Faulty variant: an exception of fetch or response.json() reaches the caller
NotifyReturn_throws(gateway) ==
  IF gateway = "ok" THEN "true"
  ELSE IF gateway = "exception" THEN "thrown" ELSE "false"

\* sendMatchNotification: what the caller gets for the gateway's answer
\* (`if (result.errors) return false`, `catch { return false }`)
NotifyReturn(gateway) == IF gateway = "ok" THEN "true" ELSE "false"

\* a finished sendMatchNotification call
NotifDone(c, gateway, outcome) ==
  [recipient |-> c.recipient, recipe |-> c.recipe, token |-> c.token,
   lookupError |-> c.lookupError, envelopes |-> c.envelopes,
   gateway |-> gateway, outcome |-> outcome]

\* sendMatchNotification(recipientUserId, recipeName) up to the fetch: the
\* push_token lookup, the early `return false`, the POST to the gateway
NotifyLookup(recipientUserId, recipeName, lookupError) ==
  LET token == profiles[recipientUserId].push_token
      out == sendMatchNotification(recipientUserId, recipeName, token, lookupError)
      c == [pc |-> "post", recipient |-> recipientUserId, recipe |-> recipeName,
            token |-> token, lookupError |-> lookupError, envelopes |-> Len(out)]
  IN /\ notif.pc = "idle"
     /\ Len(notifLog) < MaxNotifications
     /\ lookupError => faults < MaxFaults
     /\ faults' = IF lookupError THEN faults + 1 ELSE faults
     /\ sent' = sent \o out
     /\ IF out = <<>>
        THEN /\ notifLog' = Append(notifLog, NotifDone(c, "none", "false"))
             /\ UNCHANGED notif
        ELSE /\ notif' = c
             /\ UNCHANGED notifLog
     /\ UNCHANGED <<couples, swipes, matches, call, lastResult, nCalls,
                    matchReports, animCount, chan, inbox, owed, newMatchCalls,
                    dropped, profiles>>
     /\ UNCHANGED <<connVars, favVars, libVars, pairVars, hookVars, queueVars>>

\* sendMatchNotification after the fetch: the gateway accepts the envelope,
\* answers with errors, or fetch / response.json() throws
GatewayResponse(gateway) ==
  /\ notif.pc = "post"
  /\ notifLog' = Append(notifLog, NotifDone(notif, gateway, NotifyReturn(gateway)))
  /\ notif' = NotifIdle
  /\ UNCHANGED <<couples, swipes, matches, call, lastResult, nCalls,
                 matchReports, animCount, chan, inbox, owed, newMatchCalls,
                 dropped, sent, faults, profiles>>
  /\ UNCHANGED <<connVars, favVars, libVars, pairVars, hookVars, queueVars>>

\* The swipe / match pipeline: the two partners' recordSwipe calls
Next ==
  \/ \E u \in Users, r \in Recipes, d \in {"like", "dislike"}, f \in BOOLEAN :
       InsertSwipe(u, r, d, f)
  \/ \E u \in Users : CommitSwipe(u)
  \/ \E u \in Users, f \in BOOLEAN : CheckPartnerSwipe(u, f)
  \/ \E u \in Users, f \in BOOLEAN : CheckExistingMatch(u, f)
  \/ \E u \in Users, f \in BOOLEAN : CreateMatch(u, f)

Spec == Init /\ [][Next]_vars

\* recordSwipe calls made so far by the couple, finished or in flight
Started ==
  nCalls["A"] + nCalls["B"] + Cardinality({u \in Users : call[u].pc # "idle"})

\* The pipeline together with each client's realtime subscription; here
\* MaxCalls caps the calls of the two partners together
NextRT ==
  \/ \E u \in Users, r \in Recipes, d \in {"like", "dislike"}, f \in BOOLEAN :
       Started < MaxCalls /\ InsertSwipe(u, r, d, f)
  \/ \E u \in Users : CommitSwipe(u)
  \/ \E u \in Users, f \in BOOLEAN : CheckPartnerSwipe(u, f)
  \/ \E u \in Users, f \in BOOLEAN : CheckExistingMatch(u, f)
  \/ \E u \in Users, f \in BOOLEAN : CreateMatch(u, f)
  \/ \E u \in Users : Subscribe(u)
  \/ \E u \in Users, s \in {"subscribed", "closed", "errored"} : ChannelStatus(u, s)
  \/ \E u \in Users, id \in 1..(2 * NumRecipes), f \in BOOLEAN :
       OnInsertPayload(u, id, f)

SpecRT == Init /\ [][NextRT]_vars

\* lib recordSwipe called by members and non-members, for the couple and
\* for a couple id that does not exist
NextLib ==
  \/ \E u \in Users, a \in BOOLEAN, r \in Recipes, d \in {"like", "dislike"},
        cid \in CoupleIds \cup {UnknownCouple}, f \in BOOLEAN :
       recordSwipe(u, a, r, d, cid, f)
  \/ \E u \in Users, uid \in Users, r \in Recipes, d \in {"like", "dislike"},
        cid \in CoupleIds \cup {UnknownCouple} :
       InsertSwipeAsOther(u, uid, r, d, cid)
  \/ \E u \in Users : CommitSwipesInsert(u)

SpecLib == Init /\ [][NextLib]_vars

\* The pipeline, run without storage faults, together with storePushToken
\* and sendMatchNotification(partnerId, recipeName) called by a client whose
\* recordSwipe reported a match; here MaxCalls caps the calls of the two
\* partners together
NextNotify ==
  \/ \E u \in Users, r \in Recipes, d \in {"like", "dislike"} :
       Started < MaxCalls /\ InsertSwipe(u, r, d, FALSE)
  \/ \E u \in Users : CommitSwipe(u)
  \/ \E u \in Users : CheckPartnerSwipe(u, FALSE)
  \/ \E u \in Users : CheckExistingMatch(u, FALSE)
  \/ \E u \in Users : CreateMatch(u, FALSE)
  \/ \E u \in Users, f \in BOOLEAN : storePushToken(u, f)
  \/ \E u \in Users, f \in BOOLEAN :
       /\ lastResult[u].isMatch /\ lastResult[u].match # 0
       /\ NotifyLookup(PartnerId(u), lastResult[u].recipe, f)
  \/ \E g \in {"ok", "errors", "exception"} : GatewayResponse(g)

SpecNotify == Init /\ [][NextNotify]_vars

MatchIds == 1..NumRecipes

\* The pipeline, run without storage faults, together with the favourite
\* toggles of both screens; here MaxCalls caps the calls of the two partners
\* together and the storage faults hit the favourite queries
NextFav ==
  \/ \E u \in Users, r \in Recipes, d \in {"like", "dislike"} :
       Started < MaxCalls /\ InsertSwipe(u, r, d, FALSE)
  \/ \E u \in Users : CommitSwipe(u)
  \/ \E u \in Users : CheckPartnerSwipe(u, FALSE)
  \/ \E u \in Users : CheckExistingMatch(u, FALSE)
  \/ \E u \in Users : CreateMatch(u, FALSE)
  \/ \E u \in Users, f \in BOOLEAN : fetchMatches(u, f)
  \/ \E u \in Users, id \in MatchIds, f \in BOOLEAN : toggleFavorite(u, id, f)
  \/ \E u \in Users, id \in MatchIds, f \in BOOLEAN : fetchRecipeDetails(u, id, f)
  \/ \E u \in Users, f \in BOOLEAN : detailToggleFavorite(u, f)

SpecFav == Init /\ [][NextFav]_vars


\* ---- pairing: authStore and the lib/supabase couples functions ----

\* code.toUpperCase()
toUpperCase(code) == IF code = "g1" THEN "G1" ELSE code

\* The couples rows a select or update by uid can touch: policies "Users can
\* view their own couples" / "Users can update their own couples"
VisibleCouples(uid) ==
  {cid \in DOMAIN couples :
     ~rlsCouples \/ uid \in {couples[cid].user1_id, couples[cid].user2_id}}

\* A couples row as the client receives it
CoupleRow(cid, row) ==
  [id |-> cid, user1_id |-> row.user1_id, user2_id |-> row.user2_id]

\* The id (and invite code) generate_invite_code gives the next couple
NewCoupleId == CHOOSE cid \in PairIds : cid \notin DOMAIN couples

\* insert into couples (user1_id, invite_code): user2_id stays null
InsertCouple(uid) ==
  couples' = couples @@ (NewCoupleId :> [user1_id |-> uid, user2_id |-> NULL])

\* authStore.generateInviteCode
generateInviteCode(u) ==
  /\ Cardinality(DOMAIN couples) < MaxCouples
  /\ InsertCouple(u)
  /\ store' = [store EXCEPT ![u] =
                 [couple |-> CoupleRow(NewCoupleId, [user1_id |-> u, user2_id |-> NULL]),
                  isPaired |-> FALSE]]
  /\ UNCHANGED <<swipes, matches, call, lastResult, nCalls, matchReports,
                 animCount, chan, inbox, owed, newMatchCalls, dropped, sent,
                 faults, joinCall, joinLog, rlsCouples>>
  /\ UNCHANGED <<connVars, favVars, libVars, notifVars, hookVars, queueVars>>

\* lib createCouple
createCouple(u) ==
  /\ Cardinality(DOMAIN couples) < MaxCouples
  /\ InsertCouple(u)
  /\ UNCHANGED <<swipes, matches, call, lastResult, nCalls, matchReports,
                 animCount, chan, inbox, owed, newMatchCalls, dropped, sent,
                 faults>>
  /\ UNCHANGED <<connVars, favVars, libVars, notifVars, pairVars, hookVars, queueVars>>

\* acceptInviteCode / joinCouple calls made so far, finished or in flight
JoinsStarted ==
  Cardinality(joinLog) + Cardinality({u \in Actors : joinCall[u].pc # "idle"})

\* A join call by u with the code ends: ok = it returned the joined couple
JoinReturn(u, code, ok) ==
  /\ joinLog' = joinLog \cup {[user |-> u, code |-> code, ok |-> ok]}
  /\ joinCall' = [joinCall EXCEPT ![u] = JoinIdle]

\* authStore.acceptInviteCode up to its update: the select by invite_code
\* with user2_id null, and the self-pairing check
acceptInviteCode(u, code) ==
  LET found == {cid \in VisibleCouples(u) :
                  cid = toUpperCase(code) /\ couples[cid].user2_id = NULL}
  IN /\ joinCall[u].pc = "idle"
     /\ JoinsStarted < MaxJoins
     /\ IF found = {} \/ (\E cid \in found : couples[cid].user1_id = u)
          THEN JoinReturn(u, toUpperCase(code), FALSE)
          ELSE /\ joinCall' = [joinCall EXCEPT ![u] =
                     [pc |-> "update", target |-> toUpperCase(code), viaStore |-> TRUE]]
               /\ UNCHANGED joinLog
     /\ UNCHANGED <<couples, swipes, matches, call, lastResult, nCalls,
                    matchReports, animCount, chan, inbox, owed, newMatchCalls,
                    dropped, sent, faults, store, rlsCouples>>
     /\ UNCHANGED <<connVars, favVars, libVars, notifVars, hookVars, queueVars>>

\* lib joinCouple up to its update: the select by invite_code, the
\* 'Couple already full' check and the own-couple check
joinCouple(u, code) ==
  LET found == {cid \in VisibleCouples(u) : cid = toUpperCase(code)}
  IN /\ joinCall[u].pc = "idle"
     /\ JoinsStarted < MaxJoins
     /\ IF \/ found = {}
           \/ \E cid \in found : couples[cid].user2_id # NULL
           \/ \E cid \in found : couples[cid].user1_id = u
          THEN JoinReturn(u, toUpperCase(code), FALSE)
          ELSE /\ joinCall' = [joinCall EXCEPT ![u] =
                     [pc |-> "update", target |-> toUpperCase(code), viaStore |-> FALSE]]
               /\ UNCHANGED joinLog
     /\ UNCHANGED <<couples, swipes, matches, call, lastResult, nCalls,
                    matchReports, animCount, chan, inbox, owed, newMatchCalls,
                    dropped, sent, faults, store, rlsCouples>>
     /\ UNCHANGED <<connVars, favVars, libVars, notifVars, hookVars, queueVars>>

\* update couples set user2_id = u where id = target, `.select().single()`,
\* and the rest of the call: no row updated is an error
UpdateUser2(u) ==
  LET c == joinCall[u]
      row == [couples[c.target] EXCEPT !.user2_id = u]
  IN /\ c.pc = "update"
     /\ IF c.target \in VisibleCouples(u)
          THEN /\ couples' = [couples EXCEPT ![c.target] = row]
               /\ JoinReturn(u, c.target, TRUE)
               /\ IF c.viaStore
                    THEN store' = [store EXCEPT ![u] =
                           [couple |-> CoupleRow(c.target, row), isPaired |-> TRUE]]
                    ELSE UNCHANGED store
          ELSE /\ JoinReturn(u, c.target, FALSE)
               /\ UNCHANGED <<couples, store>>
     /\ UNCHANGED <<swipes, matches, call, lastResult, nCalls, matchReports,
                    animCount, chan, inbox, owed, newMatchCalls, dropped, sent,
                    faults, rlsCouples>>
     /\ UNCHANGED <<connVars, favVars, libVars, notifVars, hookVars, queueVars>>

\* select * from couples where user1_id = u or user2_id = u, `.single()`,
\* then `if (!coupleError && coupleData) set({couple, isPaired: true})`:
\* the store's pairing state afterwards
LoadCouple(u) ==
  LET rows == {cid \in DOMAIN couples :
                 u \in {couples[cid].user1_id, couples[cid].user2_id}}
  IN IF Cardinality(rows) = 1
       THEN [couple |-> CoupleRow(CHOOSE cid \in rows : TRUE,
                                  couples[CHOOSE cid \in rows : TRUE]),
             isPaired |-> TRUE]
       ELSE store[u]

\* authStore.login after signIn and the profile fetch
login(u) ==
  /\ store' = [store EXCEPT ![u] = LoadCouple(u)]
  /\ UNCHANGED <<couples, swipes, matches, call, lastResult, nCalls,
                 matchReports, animCount, chan, inbox, owed, newMatchCalls,
                 dropped, sent, faults, joinCall, joinLog, rlsCouples>>
  /\ UNCHANGED <<connVars, favVars, libVars, notifVars, hookVars, queueVars>>

\* authStore.initialize with a stored session
initialize(u) ==
  /\ store' = [store EXCEPT ![u] = LoadCouple(u)]
  /\ UNCHANGED <<couples, swipes, matches, call, lastResult, nCalls,
                 matchReports, animCount, chan, inbox, owed, newMatchCalls,
                 dropped, sent, faults, joinCall, joinLog, rlsCouples>>
  /\ UNCHANGED <<connVars, favVars, libVars, notifVars, hookVars, queueVars>>

\* the onAuthStateChange handler on SIGNED_IN
onSignedIn(u) ==
  /\ store' = [store EXCEPT ![u] = LoadCouple(u)]
  /\ UNCHANGED <<couples, swipes, matches, call, lastResult, nCalls,
                 matchReports, animCount, chan, inbox, owed, newMatchCalls,
                 dropped, sent, faults, joinCall, joinLog, rlsCouples>>
  /\ UNCHANGED <<connVars, favVars, libVars, notifVars, hookVars, queueVars>>

\* The project's operator turns row level security off on the couples table
DisableCouplesRLS ==
  /\ rlsCouples
  /\ rlsCouples' = FALSE
  /\ UNCHANGED <<couples, swipes, matches, call, lastResult, nCalls,
                 matchReports, animCount, chan, inbox, owed, newMatchCalls,
                 dropped, sent, faults, store, joinCall, joinLog>>
  /\ UNCHANGED <<connVars, favVars, libVars, notifVars, hookVars, queueVars>>

\* Pairing: the three accounts create couples, redeem invite codes and
\* reload their store
NextCouple ==
  \/ \E u \in Actors : generateInviteCode(u)
  \/ \E u \in Actors : createCouple(u)
  \/ \E u \in Actors, code \in TypedCodes : acceptInviteCode(u, code)
  \/ \E u \in Actors, code \in TypedCodes : joinCouple(u, code)
  \/ \E u \in Actors : UpdateUser2(u)
  \/ \E u \in Actors : login(u)
  \/ \E u \in Actors : initialize(u)
  \/ \E u \in Actors : onSignedIn(u)
  \/ DisableCouplesRLS

SpecCouple == Init /\ [][NextCouple]_vars


\* ---- unpairing ----

\* delete from couples where id = cid: couples has no DELETE policy, so with
\* row level security on no row is deleted (and no error is raised)
CoupleDeleted(cid) == cid \in DOMAIN couples /\ ~rlsCouples

\* The rows left after the ON DELETE CASCADE of couple cid
Cascade(rows, cid) ==
  LET Kept(row) == row.couple_id # cid
  IN SelectSeq(rows, Kept)

\* Faulty variant: the screen also deletes the user's own swipes, whether or
\* not the couple row was deleted
handleUnpair_deleteSwipes(u) ==
  LET cid == store[u].couple.id
      Kept(row) == row.user_id # u
  IN /\ store[u].couple # NoCouple
     /\ \A v \in Users : call[v].pc # "txn"
     /\ IF CoupleDeleted(cid)
          THEN /\ couples' = [c \in DOMAIN couples \ {cid} |-> couples[c]]
               /\ swipes' = Cascade(swipes, cid)
               /\ matches' = Cascade(matches, cid)
          ELSE /\ swipes' = SelectSeq(swipes, Kept)
               /\ UNCHANGED <<couples, matches>>
     /\ store' = [store EXCEPT ![u] = NoStore]
     /\ UNCHANGED <<call, lastResult, nCalls, matchReports, animCount, chan,
                    inbox, owed, newMatchCalls, dropped, sent, faults,
                    joinCall, joinLog, rlsCouples>>
     /\ UNCHANGED <<connVars, favVars, libVars, notifVars, hookVars, queueVars>>

\* The profile screen's handleUnpair once confirmed: delete the couple row,
\* which cascades to its swipes and matches, then setCouple(null). The
\* delete waits for open transactions that reference the couple.
handleUnpair(u) ==
  LET cid == store[u].couple.id
  IN /\ store[u].couple # NoCouple
     /\ \A v \in Users : call[v].pc # "txn"
     /\ IF CoupleDeleted(cid)
          THEN /\ couples' = [c \in DOMAIN couples \ {cid} |-> couples[c]]
               /\ swipes' = Cascade(swipes, cid)
               /\ matches' = Cascade(matches, cid)
          ELSE UNCHANGED <<couples, swipes, matches>>
     /\ store' = [store EXCEPT ![u] = NoStore]
     /\ UNCHANGED <<call, lastResult, nCalls, matchReports, animCount, chan,
                    inbox, owed, newMatchCalls, dropped, sent, faults,
                    joinCall, joinLog, rlsCouples>>
     /\ UNCHANGED <<connVars, favVars, libVars, notifVars, hookVars, queueVars>>

\* The pipeline, run without storage faults, together with the partners'
\* login and unpairing; here MaxCalls caps the calls of the two partners
\* together
NextUnpair ==
  \/ \E u \in Users, r \in Recipes, d \in {"like", "dislike"} :
       Started < MaxCalls /\ InsertSwipe(u, r, d, FALSE)
  \/ \E u \in Users : CommitSwipe(u)
  \/ \E u \in Users : CheckPartnerSwipe(u, FALSE)
  \/ \E u \in Users : CheckExistingMatch(u, FALSE)
  \/ \E u \in Users : CreateMatch(u, FALSE)
  \/ \E u \in Users : login(u)
  \/ \E u \in Users : handleUnpair(u)
  \/ DisableCouplesRLS

SpecUnpair == Init /\ [][NextUnpair]_vars


\* recordSwipe calls made so far by the two couples, finished or in flight
CrossStarted ==
  nCalls["A"] + nCalls["B"] + nCalls["C"] + nCalls["D"]
    + Cardinality({u \in Everyone : call[u].pc # "idle"})

\* The pipeline of two couples side by side, run without storage faults;
\* MaxCrossCalls caps the calls of the two couples together
NextCross ==
  \/ \E u \in Everyone, r \in Recipes, d \in {"like", "dislike"} :
       CrossStarted < MaxCrossCalls /\ InsertSwipe(u, r, d, FALSE)
  \/ \E u \in Everyone : CommitSwipe(u)
  \/ \E u \in Everyone : CheckPartnerSwipe(u, FALSE)
  \/ \E u \in Everyone : CheckExistingMatch(u, FALSE)
  \/ \E u \in Everyone : CreateMatch(u, FALSE)

SpecCross == InitCross /\ [][NextCross]_vars


\* ---- one useRealtime instance and its channels ----

\* channel.unsubscribe() on channel k (0: no channel): the channel leaves and
\* will report CLOSED
Unsubscribed(chs, k) ==
  IF k = 0 \/ chs[k].status \in {"leaving", "closed"}
  THEN chs
  ELSE [chs EXCEPT ![k].status = "leaving"]

\* supabase.channel(...).on(...).subscribe(...) for the couple
NewChannel(cid) == [status |-> "joining", couple |-> cid]

\* The hook's subscribe(): unsubscribe the `channel` its closure holds,
\* create a channel; the caller stores it with setChannel
Subscribed(chs, closure, cid) == Append(Unsubscribed(chs, closure), NewChannel(cid))

\* coupleId / enabled change: the component renders again, the previous
\* effect's cleanup calls the unsubscribe it captured, and the effect calls
\* subscribe() of this render when enabled with a coupleId
SetProps(cid, en) ==
  LET cleaned == Unsubscribed(channels, hook.captured)
      resub == en /\ cid # NULL
  IN /\ hook.mounted
     /\ <<cid, en>> # <<hook.coupleId, hook.enabled>>
     /\ resub => Len(channels) < MaxChannels
     /\ channels' = IF resub THEN Subscribed(cleaned, hook.channel, cid) ELSE cleaned
     /\ hook' = [hook EXCEPT !.coupleId = cid, !.enabled = en,
                             !.captured = hook.channel,
                             !.channel = IF resub THEN Len(channels) + 1
                                         ELSE IF hook.captured # 0 THEN 0
                                         ELSE hook.channel,
                             !.op = "props"]
     /\ hookConn' = IF hook.captured # 0
                    THEN [connected |-> FALSE, error |-> NULL]
                    ELSE hookConn
     /\ UNCHANGED <<couples, swipes, matches, call, lastResult, nCalls,
                    matchReports, animCount, chan, inbox, owed, newMatchCalls,
                    dropped, sent, faults, deliveries>>
     /\ UNCHANGED <<connVars, favVars, libVars, notifVars, pairVars, queueVars>>

\* The component calls the returned subscribe()
CallSubscribe ==
  /\ hook.mounted
  /\ hook.coupleId # NULL /\ hook.enabled
  /\ Len(channels) < MaxChannels
  /\ channels' = Subscribed(channels, hook.captured, hook.coupleId)
  /\ hook' = [hook EXCEPT !.channel = Len(channels) + 1, !.op = "subscribe"]
  /\ UNCHANGED <<couples, swipes, matches, call, lastResult, nCalls,
                 matchReports, animCount, chan, inbox, owed, newMatchCalls,
                 dropped, sent, faults, hookConn, deliveries>>
  /\ UNCHANGED <<connVars, favVars, libVars, notifVars, pairVars, queueVars>>

\* The component calls the returned unsubscribe(), which holds the current
\* `channel`
CallUnsubscribe ==
  /\ hook.mounted
  /\ hook.channel # 0
  /\ channels' = Unsubscribed(channels, hook.channel)
  /\ hook' = [hook EXCEPT !.channel = 0, !.op = "unsubscribe"]
  /\ hookConn' = [connected |-> FALSE, error |-> NULL]
  /\ UNCHANGED <<couples, swipes, matches, call, lastResult, nCalls,
                 matchReports, animCount, chan, inbox, owed, newMatchCalls,
                 dropped, sent, faults, deliveries>>
  /\ UNCHANGED <<connVars, favVars, libVars, notifVars, pairVars, queueVars>>

\* The component unmounts: the effect's cleanup calls the unsubscribe it
\* captured; state updates of an unmounted component are dropped
Unmount ==
  /\ hook.mounted
  /\ channels' = Unsubscribed(channels, hook.captured)
  /\ hook' = [hook EXCEPT !.mounted = FALSE, !.op = "unmount"]
  /\ UNCHANGED <<couples, swipes, matches, call, lastResult, nCalls,
                 matchReports, animCount, chan, inbox, owed, newMatchCalls,
                 dropped, sent, faults, hookConn, deliveries>>
  /\ UNCHANGED <<connVars, favVars, libVars, notifVars, pairVars, queueVars>>

\* The subscribe callback of channel k with a status: connectionState
\* afterwards
HookStatus(k, status) ==
  IF ~hook.mounted THEN hookConn
  ELSE IF status = "SUBSCRIBED" THEN [connected |-> TRUE, error |-> NULL]
  ELSE IF status \in {"CLOSED", "CHANNEL_ERROR"}
  THEN [connected |-> FALSE, error |-> status]
  ELSE hookConn

\* Channel k reports a status to the callback given to its subscribe(...)
HookChannelStatus(k, status) ==
  /\ k \in 1..Len(channels)
  /\ \/ /\ status = "SUBSCRIBED"
        /\ channels[k].status \in {"joining", "errored"}
        /\ channels' = [channels EXCEPT ![k].status = "subscribed"]
     \/ /\ status = "CHANNEL_ERROR"
        /\ channels[k].status \in {"joining", "subscribed"}
        /\ channels' = [channels EXCEPT ![k].status = "errored"]
     \/ /\ status = "CLOSED"
        /\ channels[k].status = "leaving"
        /\ channels' = [channels EXCEPT ![k].status = "closed"]
  /\ hookConn' = HookStatus(k, status)
  /\ UNCHANGED <<couples, swipes, matches, call, lastResult, nCalls,
                 matchReports, animCount, chan, inbox, owed, newMatchCalls,
                 dropped, sent, faults, hook, deliveries>>
  /\ UNCHANGED <<connVars, favVars, libVars, notifVars, pairVars, queueVars>>

\* A row is inserted into matches for the couple: every subscribed channel
\* filtered on the couple runs its payload callback, which fetches the
\* match and calls onNewMatch
HookInsertEvent(cid) ==
  /\ deliveries' = Cardinality({k \in 1..Len(channels) :
                                  /\ channels[k].status = "subscribed"
                                  /\ channels[k].couple = cid})
  /\ UNCHANGED <<couples, swipes, matches, call, lastResult, nCalls,
                 matchReports, animCount, chan, inbox, owed, newMatchCalls,
                 dropped, sent, faults, hook, channels, hookConn>>
  /\ UNCHANGED <<connVars, favVars, libVars, notifVars, pairVars, queueVars>>

\* One useRealtime instance from mount to unmount
NextHook ==
  \/ \E cid \in PairIds \cup {NULL}, en \in BOOLEAN : SetProps(cid, en)
  \/ CallSubscribe
  \/ CallUnsubscribe
  \/ Unmount
  \/ \E k \in 1..MaxChannels, st \in {"SUBSCRIBED", "CHANNEL_ERROR", "CLOSED"} :
       HookChannelStatus(k, st)
  \/ \E cid \in PairIds : HookInsertEvent(cid)

SpecHook == Init /\ [][NextHook]_vars


\* ---- useRecipeQueue ----

\* The recipe ids of the swipes rows of (uid, cid)
SwipedRecipeIds(uid, cid) ==
  {swipes[i].recipe_id : i \in {j \in 1..Len(swipes) :
      swipes[j].user_id = uid /\ swipes[j].couple_id = cid}}

\* recipes ordered by created_at descending without the excluded ids
RECURSIVE NotIn(_, _)
NotIn(ids, excluded) ==
  IF ids = <<>> THEN <<>>
  ELSE IF Head(ids) \in excluded THEN NotIn(Tail(ids), excluded)
  ELSE <<Head(ids)>> \o NotIn(Tail(ids), excluded)

\* .range(from, to): rows from..to of the result, counted from 0
Range(rows, from, to) ==
  IF from + 1 > Len(rows) THEN <<>>
  ELSE SubSeq(rows, from + 1, IF to + 1 < Len(rows) THEN to + 1 ELSE Len(rows))

\* The recipes query of a call that read the swiped ids
RecipesPage(f) ==
  Range(NotIn([i \in 1..NumQueueRecipes |-> i], f.swiped),
        f.offset, f.offset + PageSize - 1)

\* fetchRecipes starts: setLoading(true), and the call is in flight
IssueFetch(props, currentOffset, append) ==
  /\ issued < MaxFetches
  /\ issued' = issued + 1
  /\ fetches' = fetches \cup {FetchCall(issued + 1, props, currentOffset, append)}
  /\ lastSwiped' = SwipedRecipeIds("A", "G1")

\* SwipeScreen.loadUserData sets the user id, then the couple: fetchRecipes
\* changes and the initial-load effect calls fetchRecipes(0, false)
QueueSetProps(uid, cid) ==
  /\ \/ qprops.userId = "" /\ uid = "A" /\ cid = qprops.coupleId
     \/ qprops.coupleId = "" /\ cid = "G1" /\ uid = qprops.userId /\ uid # ""
  /\ qprops' = [userId |-> uid, coupleId |-> cid]
  /\ IssueFetch([userId |-> uid, coupleId |-> cid], 0, FALSE)
  /\ paging' = [paging EXCEPT !.loading = TRUE]
  /\ UNCHANGED <<couples, swipes, matches, call, lastResult, nCalls,
                 matchReports, animCount, chan, inbox, owed, newMatchCalls,
                 dropped, sent, faults, queue, lastApplied>>
  /\ UNCHANGED <<connVars, favVars, libVars, notifVars, pairVars, hookVars>>

\* loadMore
loadMore ==
  /\ paging.hasMore /\ ~paging.loading
  /\ IssueFetch(qprops, paging.offset + PageSize, TRUE)
  /\ paging' = [paging EXCEPT !.offset = paging.offset + PageSize, !.loading = TRUE]
  /\ UNCHANGED <<couples, swipes, matches, call, lastResult, nCalls,
                 matchReports, animCount, chan, inbox, owed, newMatchCalls,
                 dropped, sent, faults, qprops, queue, lastApplied>>
  /\ UNCHANGED <<connVars, favVars, libVars, notifVars, pairVars, hookVars>>

\* refresh
refresh ==
  /\ IssueFetch(qprops, 0, FALSE)
  /\ paging' = [offset |-> 0, hasMore |-> TRUE, loading |-> TRUE]
  /\ UNCHANGED <<couples, swipes, matches, call, lastResult, nCalls,
                 matchReports, animCount, chan, inbox, owed, newMatchCalls,
                 dropped, sent, faults, qprops, queue, lastApplied>>
  /\ UNCHANGED <<connVars, favVars, libVars, notifVars, pairVars, hookVars>>

\* fetchRecipes: the swipes query answers. user_id and couple_id are uuid
\* columns, so the query of a call made with '' fails: setError, and
\* setLoading(false) in the finally block
FetchSwipes(id) ==
  \E f \in fetches :
    /\ f.id = id
    /\ f.pc = "swipes"
    /\ IF f.userId = "" \/ f.coupleId = ""
         THEN /\ fetches' = fetches \ {f}
              /\ paging' = [paging EXCEPT !.loading = FALSE]
         ELSE /\ fetches' = (fetches \ {f}) \cup
                   {[f EXCEPT !.pc = "recipes",
                              !.swiped = SwipedRecipeIds(f.userId, f.coupleId)]}
              /\ UNCHANGED paging
    /\ UNCHANGED <<couples, swipes, matches, call, lastResult, nCalls,
                   matchReports, animCount, chan, inbox, owed, newMatchCalls,
                   dropped, sent, faults, qprops, queue, issued, lastSwiped,
                   lastApplied>>
    /\ UNCHANGED <<connVars, favVars, libVars, notifVars, pairVars, hookVars>>

\* fetchRecipes: the recipes query answers: setRecipes (append or replace),
\* setHasMore(fetchedRecipes.length === pageSize), setLoading(false)
FetchRecipes(id) ==
  \E f \in fetches :
    /\ f.id = id
    /\ f.pc = "recipes"
    /\ queue' = IF f.append THEN queue \o RecipesPage(f) ELSE RecipesPage(f)
    /\ paging' = [paging EXCEPT !.hasMore = (Len(RecipesPage(f)) = PageSize),
                                !.loading = FALSE]
    /\ fetches' = fetches \ {f}
    /\ lastApplied' = f.id
    /\ UNCHANGED <<couples, swipes, matches, call, lastResult, nCalls,
                   matchReports, animCount, chan, inbox, owed, newMatchCalls,
                   dropped, sent, faults, qprops, issued, lastSwiped>>
    /\ UNCHANGED <<connVars, favVars, libVars, notifVars, pairVars, hookVars>>

\* The recipe queue of user A's SwipeScreen while A swipes, without storage
\* faults
NextQueue ==
  \/ \E uid \in {"A"}, cid \in {"", "G1"} : QueueSetProps(uid, cid)
  \/ loadMore
  \/ refresh
  \/ \E id \in 1..MaxFetches : FetchSwipes(id)
  \/ \E id \in 1..MaxFetches : FetchRecipes(id)
  \/ \E r \in QueueRecipes, d \in {"like", "dislike"} : InsertSwipe("A", r, d, FALSE)
  \/ CommitSwipe("A")
  \/ CheckPartnerSwipe("A", FALSE)

SpecQueue == Init /\ [][NextQueue]_vars


\* ==== Properties ====

Quiescent == \A u \in Users : call[u].pc = "idle"

Complete(cid) == couples[cid].user2_id # NULL

Members(cid) == {couples[cid].user1_id, couples[cid].user2_id}

\* both slots of the couple hold a user with a committed 'like' on rid
BothLiked(cid, rid) == \A m \in Members(cid) : SwipeDirection(m, rid, cid) = "like"

MatchRows(cid, rid) ==
  {i \in 1..Len(matches) : matches[i].couple_id = cid /\ matches[i].recipe_id = rid}

Envelopes(rid) == {i \in 1..Len(sent) : sent[i].recipe = rid}

\* the member whose 'like' on rid was committed first
EarlierLiker(cid, rid) ==
  LET i == CHOOSE i \in 1..Len(swipes) :
             /\ swipes[i].couple_id = cid /\ swipes[i].recipe_id = rid
             /\ \A j \in 1..Len(swipes) :
                  (swipes[j].couple_id = cid /\ swipes[j].recipe_id = rid) => i <= j
  IN swipes[i].user_id

\* C1: in every reachable state the matches table holds at most one row per
\* (couple_id, recipe_id), whatever the interleaving of the partners' calls.
C1_UniqueMatch ==
  \A i, j \in 1..Len(matches) :
    (matches[i].couple_id = matches[j].couple_id
     /\ matches[i].recipe_id = matches[j].recipe_id) => i = j

\* Both partners are about to run the client's INSERT INTO matches for the same recipe
C1_Witness ==
  /\ call["A"].pc = "createMatch"
  /\ call["B"].pc = "createMatch"
  /\ call["A"].recipe = call["B"].recipe

\* C2: once both partners of a complete couple have finished a recordSwipe
\* 'like' for the same recipe and no call is in flight, exactly one match row
\* for (couple, recipe) exists.
C2_ExactlyOneMatch ==
  \A cid \in CoupleIds, r \in Recipes :
    (Complete(cid) /\ Quiescent /\ BothLiked(cid, r))
      => Cardinality(MatchRows(cid, r)) = 1

\* C3: a match row exists only if each of the couple's two users has a 'like'
\* row for that recipe; while only one partner has liked it, no match row
\* exists and getMatches does not list it.
C3_NoPrematureMatch ==
  \A cid \in CoupleIds, r \in Recipes :
    /\ MatchRows(cid, r) # {} => BothLiked(cid, r)
    /\ \A f \in BOOLEAN : r \in getMatches(cid, f) => BothLiked(cid, r)

\* One partner's 'like' call has finished, the other has no 'like', no match
C3_Witness ==
  \E cid \in CoupleIds, r \in Recipes :
    /\ Complete(cid) /\ Quiescent
    /\ SwipeDirection(couples[cid].user1_id, r, cid) = "like"
    /\ SwipeDirection(couples[cid].user2_id, r, cid) # "like"
    /\ MatchRows(cid, r) = {}

\* C4: a 'dislike' never takes part in a match: a recipe that a member of the
\* couple has disliked has no match row, whichever partner swiped first.
C4_DislikeNeverMatches ==
  \A cid \in CoupleIds, r \in Recipes :
    (\E m \in Members(cid) : SwipeDirection(m, r, cid) = "dislike")
      => MatchRows(cid, r) = {}

\* One partner disliked the recipe, the other liked it, both calls finished
C4_Witness ==
  \E cid \in CoupleIds, r \in Recipes :
    /\ Quiescent
    /\ \E m \in Members(cid) : SwipeDirection(m, r, cid) = "dislike"
    /\ \E m \in Members(cid) : SwipeDirection(m, r, cid) = "like"

\* recordSwipe(r, _) is invoked by u in this step
Invoked(u, r) ==
  /\ call[u].pc = "idle"
  /\ \/ call'[u].pc # "idle" /\ call'[u].recipe = r
     \/ nCalls'[u] = nCalls[u] + 1 /\ lastResult'[u].recipe = r

\* C5: a second recordSwipe for a (user, recipe, couple) that already has a
\* swipe row returns an error, leaves the swipes table as it is, and goes on
\* to no partner lookup and no match insert.
C5_DuplicateRejected ==
  [][\A u \in Users, r \in Recipes :
       (Invoked(u, r) /\ SwipeExists(u, r, getCurrentUserCouple(u)))
         => /\ call'[u].pc = "idle"
            /\ lastResult'[u].error # NULL
            /\ ~lastResult'[u].isMatch
            /\ swipes' = swipes
            /\ matches' = matches]_vars

\* A call was rejected as a duplicate
C5_Witness ==
  \E u \in Users :
    /\ lastResult[u].error = "duplicate"
    /\ SwipeExists(u, lastResult[u].recipe, getCurrentUserCouple(u))

\* C6: for each (couple, recipe) at most one recordSwipe call returns
\* isMatch = true with a match.
C6_SingleCreatorReport ==
  \A r \in Recipes : matchReports[r] <= 1

\* C7: a match produced by both partners' likes has exactly one notification
\* envelope submitted to the push gateway.
C7_SingleNotification ==
  \A cid \in CoupleIds, r \in Recipes :
    (Quiescent /\ MatchRows(cid, r) # {}) => Cardinality(Envelopes(r)) = 1

\* C8: when a partner's like completes a match on a recipe the other partner
\* liked earlier, one notification is sent and it is addressed to the earlier
\* liker.
C8_NotifiesEarlierLiker ==
  \A cid \in CoupleIds, r \in Recipes :
    (Quiescent /\ MatchRows(cid, r) # {})
      => \E i \in Envelopes(r) :
           /\ sent[i].recipient = EarlierLiker(cid, r)
           /\ \A j \in Envelopes(r) : j = i

\* C9: each client triggers the match celebration exactly once per match,
\* the recordSwipe result and the realtime INSERT counted together: never
\* more than once, and once on a client that was SUBSCRIBED at the insert and
\* whose INSERT callback has fetched the row.
C9_CelebratedOnce ==
  \A u \in Users, r \in Recipes :
    /\ animCount[u][r] <= 1
    /\ \A id \in MatchRows(getCurrentUserCouple(u), r) :
         (id \in owed[u] /\ id \notin inbox[u] /\ id \notin dropped[u])
           => animCount[u][r] = 1

C12_NoMatchWhileUnpaired ==
  \A cid \in CoupleIds :
    ~Complete(cid)
      => /\ \A i \in 1..Len(matches) : matches[i].couple_id # cid
         /\ \A u \in Users :
              getCurrentUserCouple(u) = cid
                => ~call[u].trigMatch /\ call[u].pc \in {"idle", "txn"}

\* user1 of a couple without a partner has recorded a 'like'
C12_Witness ==
  \E cid \in CoupleIds, r \in Recipes :
    /\ ~Complete(cid)
    /\ Quiescent
    /\ SwipeDirection(couples[cid].user1_id, r, cid) = "like"
    /\ lastResult[couples[cid].user1_id].error = NULL

\* C15: when the partner-like lookup or the match-existence check of
\* recordSwipe hits unavailable storage, the call ends there with a non-null
\* error, and the swipe row it recorded stays in the table.
C15_LookupFaultReported ==
  [][\A u \in Users :
       (/\ call[u].pc \in {"partnerSwipe", "existingMatch"}
        /\ call'[u] # call[u]
        /\ faults' = faults + 1)
         => /\ call'[u].pc = "idle"
            /\ lastResult'[u].error # NULL
            /\ swipes' = swipes]_vars

\* C16: when the match insert of recordSwipe fails, the result returned for
\* a uniqueness conflict differs from the result returned for an unreachable
\* datastore.
C16_ConflictDistinctFromOutage ==
  \A u \in Users :
    call[u].pc = "createMatch"
      => MatchErrorResult(call[u], "conflict") # MatchErrorResult(call[u], "unavailable")

\* C17: re-invoking recordSwipe for a 'like' already recorded, with storage
\* available, adds no second swipe row and no second match row and completes
\* match detection: when both partners' likes are recorded and no other call
\* is in flight, the match row exists once the retry has returned.
C17_RetryCompletesDetection ==
  [][\A u \in Users, r \in Recipes :
       LET cid == getCurrentUserCouple(u)
       IN (/\ Invoked(u, r)
           /\ faults' = faults
           /\ SwipeDirection(u, r, cid) = "like"
           /\ call'[u].pc = "idle"
           /\ lastResult'[u].direction = "like")
            => /\ swipes' = swipes
               /\ Cardinality(MatchRows(cid, r)') <= 1
               /\ (Quiescent /\ Complete(cid) /\ BothLiked(cid, r))
                    => MatchRows(cid, r)' # {}]_vars

\* the (couple_id, recipe_id) keys of the matches table
MatchKeys == {<<matches[i].couple_id, matches[i].recipe_id>> : i \in 1..Len(matches)}

\* C11: a favourite toggle (useMatches or RecipeDetailScreen) inserts and
\* deletes no matches row and changes no column but is_favorite; the set of
\* (couple, recipe) match keys is the same before and after it.
C11_ToggleWritesOnlyFavorite ==
  [][nToggles' # nToggles
       => /\ Len(matches') = Len(matches)
          /\ MatchKeys' = MatchKeys
          /\ \A i \in 1..Len(matches) :
               matches'[i] = [matches[i] EXCEPT
                                !.is_favorite = matches'[i].is_favorite]]_vars

\* C11 amended: a favourite toggle inserts and deletes no matches row and
\* changes, in the one row it addresses, only is_favorite and the
\* trigger-maintained updated_at; the set of (couple, recipe) match keys is
\* the same before and after it.
C11_ToggleWritesFavoriteAndUpdatedAt ==
  [][nToggles' # nToggles
       => /\ Len(matches') = Len(matches)
          /\ MatchKeys' = MatchKeys
          /\ \A i \in 1..Len(matches) :
               matches'[i] = [matches[i] EXCEPT
                                !.is_favorite = matches'[i].is_favorite,
                                !.updated_at = matches'[i].updated_at]
          /\ Cardinality({i \in 1..Len(matches) : matches'[i] # matches[i]}) = 1]_vars

\* A match has been made a favourite while the partner's recordSwipe is
\* still about to insert the same match
C11_Witness ==
  /\ nToggles > 0
  /\ \E i \in 1..Len(matches) : matches[i].is_favorite
  /\ \E u \in Users : call[u].pc = "createMatch"

\* the request of u answered in this step named a couple and user that the
\* insert policy admits
AdmissibleRequest(u) ==
  /\ libResult'[u].couple_id \in DOMAIN couples
  /\ libResult'[u].user_id = u
  /\ u \in Members(libResult'[u].couple_id)

\* C13: a swipe row is added only for an existing couple, by the
\* authenticated user named in the row, who holds one of the couple's two
\* slots; a submission for an unknown couple, by a non-member or in another
\* user's name is answered with an error and leaves swipes and matches as
\* they are.
C13_OnlyMembersSwipe ==
  [][/\ swipes' # swipes
         => \E u \in Users :
              /\ libCall[u].pc = "txn" /\ libCall'[u].pc = "idle"
              /\ swipes' = Append(swipes,
                   [user_id |-> u, recipe_id |-> libCall[u].recipe,
                    couple_id |-> libCall[u].couple,
                    direction |-> libCall[u].direction])
              /\ libCall[u].couple \in DOMAIN couples
              /\ u \in Members(libCall[u].couple)
     /\ \A u \in Users :
          (libResult'[u].n = libResult[u].n + 1 /\ ~AdmissibleRequest(u))
            => /\ libResult'[u].error # NULL
               /\ ~libResult'[u].swipe
               /\ swipes' = swipes
               /\ matches' = matches]_vars

\* A member's swipe was accepted, and a submission by a non-member, one for
\* an unknown couple or one in another user's name was rejected by the policy
C13_Witness ==
  /\ Len(swipes) > 0
  /\ \E u \in Users :
       /\ libResult[u].error = "rls"
       /\ \/ libResult[u].couple_id = UnknownCouple
          \/ libResult[u].user_id # u
          \/ u \notin Members(libResult[u].couple_id)

\* C14: the swipes insert adds the swipe row and nothing else; the matches
\* table is the same before and after it.
C14_InsertLeavesMatches ==
  [][swipes' # swipes => matches' = matches]_vars

\* C14 amended: the swipes insert adds one swipe row and, through the
\* AFTER INSERT trigger, at most one match row, for the swipe's couple and
\* recipe and only when the swipe is a 'like' and the partner's 'like' is
\* recorded; the two tables change in no other way.
C14_InsertAddsSwipeAndTriggeredMatch ==
  [][swipes' # swipes
       => \E u \in Users :
            LET c == libCall[u]
            IN /\ c.pc = "txn"
               /\ swipes' = Append(swipes,
                    [user_id |-> c.user_id, recipe_id |-> c.recipe,
                     couple_id |-> c.couple, direction |-> c.direction])
               /\ \/ matches' = matches
                  \/ /\ matches' = Append(matches, MatchRow(c.couple, c.recipe))
                     /\ c.direction = "like"
                     /\ \E cid \in CoupleIds, r \in Recipes :
                          cid = c.couple /\ r = c.recipe /\ BothLiked(cid, r)']_vars

\* A swipes insert has committed together with the match row of its trigger
C14_Witness ==
  /\ Len(matches) > 0
  /\ \E u \in Users : libResult[u].swipe /\ libResult[u].error = NULL

EnvelopesOwed ==
  Cardinality({i \in 1..Len(notifLog) : notifLog[i].envelopes = 1})
    + (IF notif.pc = "post" THEN 1 ELSE 0)

\* C19: every sendMatchNotification call submits at most one envelope: none,
\* returning without an exception, when the recipient has no push token, and
\* exactly one otherwise, however the gateway answers.
C19_OneEnvelopeUnlessNoToken ==
  /\ notif.envelopes <= 1
  /\ Len(sent) = EnvelopesOwed
  /\ \A i \in 1..Len(notifLog) :
       /\ notifLog[i].envelopes = (IF notifLog[i].token = NULL THEN 0 ELSE 1)
       /\ notifLog[i].token = NULL => notifLog[i].outcome = "false"

\* C19 amended: every sendMatchNotification call submits at most one
\* envelope: none, returning without an exception, when the recipient has no
\* push token or the token lookup fails, and exactly one otherwise, however
\* the gateway answers.
C19_OneEnvelopeUnlessNoTokenOrLookupError ==
  /\ notif.envelopes <= 1
  /\ Len(sent) = EnvelopesOwed
  /\ \A i \in 1..Len(notifLog) :
       /\ notifLog[i].envelopes =
            (IF notifLog[i].token = NULL \/ notifLog[i].lookupError THEN 0 ELSE 1)
       /\ (notifLog[i].token = NULL \/ notifLog[i].lookupError)
            => notifLog[i].outcome = "false"

\* One call found no token and another one's envelope was refused or lost
C19_Witness ==
  /\ \E i \in 1..Len(notifLog) : notifLog[i].token = NULL /\ notifLog[i].envelopes = 0
  /\ \E i \in 1..Len(notifLog) :
       notifLog[i].gateway \in {"errors", "exception"} /\ notifLog[i].envelopes = 1

\* C20: no step of sendMatchNotification changes the swipes or matches
\* tables, the result recordSwipe reported, or what realtime and getMatches
\* show of the match, and no call ends by throwing: a failed lookup, a gateway
\* rejection and a network exception all return false.
C20_NotificationFailureAbsorbed ==
  [][(notif' # notif \/ notifLog' # notifLog)
       => /\ UNCHANGED <<swipes, matches, lastResult, matchReports>>
          /\ UNCHANGED <<chan, inbox, owed, newMatchCalls>>
          /\ \A cid \in CoupleIds : getMatches(cid, FALSE)' = getMatches(cid, FALSE)
          /\ \A i \in 1..Len(notifLog') :
               /\ notifLog'[i].outcome \in {"true", "false"}
               /\ (notifLog'[i].lookupError \/ notifLog'[i].gateway # "ok")
                    => notifLog'[i].outcome = "false"]_vars

\* The notification for a created and reported match failed at the gateway
C20_Witness ==
  /\ Len(matches) > 0
  /\ \E u \in Users : lastResult[u].isMatch
  /\ \E i \in 1..Len(notifLog) : notifLog[i].gateway = "exception"

\* C28: a recordSwipe 'like' that was invoked when the partner's 'like' row
\* for the recipe was already committed and that returns error = null returns
\* isMatch = true with the stored match row of (couple, recipe).
C28_LateLikeReportsMatch ==
  [][\A u \in Users :
       (/\ call[u].pc # "idle"
        /\ call'[u].pc = "idle"
        /\ call[u].partnerLiked
        /\ call[u].direction = "like"
        /\ lastResult'[u].error = NULL)
         => /\ lastResult'[u].isMatch
            /\ \E cid \in CoupleIds, r \in Recipes :
                 /\ cid = getCurrentUserCouple(u) /\ r = call[u].recipe
                 /\ lastResult'[u].match \in MatchRows(cid, r)']_vars

\* ---- pairing claims ----

\* the slots of couples rows that hold uid
SlotsOf(uid) ==
  {cid \in DOMAIN couples : uid \in {couples[cid].user1_id, couples[cid].user2_id}}

\* C21: a couple is completed exactly once and is immutable afterwards: at
\* most one join call per invite code returns the couple, a join call by a
\* user other than user1 with the code of an existing couple fails only
\* when the couple is complete, and a complete couple's row never changes.
C21_CompletedExactlyOnce ==
  [][/\ \A code \in PairIds :
          Cardinality({e \in joinLog' : e.code = code /\ e.ok}) <= 1
     /\ \A e \in joinLog' \ joinLog :
          (/\ ~e.ok
           /\ e.code \in DOMAIN couples
           /\ couples[e.code].user1_id # e.user)
            => couples'[e.code].user2_id # NULL
     /\ \A cid \in DOMAIN couples :
          couples[cid].user2_id # NULL
            => cid \in DOMAIN couples' /\ couples'[cid] = couples[cid]]_vars

\* C22: each user occupies a slot (user1_id or user2_id) of at most one
\* couple.
C22_OneCouplePerUser ==
  \A u \in Actors : Cardinality(SlotsOf(u)) <= 1

\* C25: isPaired is true only when the store's couple has both user1_id and
\* user2_id filled.
C25_PairedMeansComplete ==
  \A u \in Actors :
    store[u].isPaired
      => /\ store[u].couple # NoCouple
         /\ store[u].couple.user1_id # NULL
         /\ store[u].couple.user2_id # NULL

\* ---- unpairing claims ----

\* C23: the swipes table is append-only: a step leaves the committed rows
\* as they are, or appends one row, or removes exactly the rows of a couple
\* that the step deleted; no existing row is modified.
C23_SwipesAppendOnly ==
  [][\/ swipes' = swipes
     \/ /\ Len(swipes') = Len(swipes) + 1
        /\ SubSeq(swipes', 1, Len(swipes)) = swipes
     \/ \E cid \in DOMAIN couples \ DOMAIN couples' :
          swipes' = Cascade(swipes, cid)]_vars

\* C23 witness: both partners' swipes were committed and the couple's
\* deletion removed them
C23_Witness ==
  /\ "G1" \notin DOMAIN couples
  /\ swipes = <<>>
  /\ \A u \in Users : lastResult[u].swipe /\ lastResult[u].error = NULL

\* ---- claims about two couples ----

\* The rows of couple cid in a table, each with its position
RowsOf(rows, cid) ==
  {<<i, rows[i]>> : i \in {j \in 1..Len(rows) : rows[j].couple_id = cid}}

\* C24: submissions in different couples never interact: a step changes the
\* swipes or matches rows of a couple only when it is a step of a
\* recordSwipe call of one of that couple's members.
C24_CouplesIsolated ==
  [][\A cid \in DOMAIN couples :
       (\/ RowsOf(swipes', cid) # RowsOf(swipes, cid)
        \/ RowsOf(matches', cid) # RowsOf(matches, cid))
         => \E u \in Members(cid) : call[u].pc # "idle" /\ call'[u] # call[u]]_vars

\* C24 witness: the recipe is liked in both couples; G2 has its match while
\* G1 has A's like only
C24_Witness ==
  \E r \in Recipes :
    /\ SwipeDirection("A", r, "G1") = "like"
    /\ ~MatchExists("G1", r)
    /\ MatchExists("G2", r)

\* ---- claims about the useRealtime instance ----

\* The channels the instance created and has not unsubscribed
LiveChannels ==
  {k \in 1..Len(channels) : channels[k].status \in {"joining", "subscribed", "errored"}}

\* C26: useRealtime cleans up its channels: at most one channel is live,
\* none is after unsubscribe or unmount, and onNewMatch is called at most
\* once for one INSERT.
C26_ChannelsCleanedUp ==
  /\ Cardinality(LiveChannels) <= 1
  /\ hook.op \in {"unsubscribe", "unmount"} => LiveChannels = {}
  /\ deliveries <= 1

\* C29: connectionState.connected is true only while the hook's current
\* channel is subscribed, and a status callback of a channel that is not
\* the hook's current channel leaves connectionState unchanged.
C29_StatusOfCurrentChannelOnly ==
  [][/\ hookConn'.connected
          => /\ hook'.channel # 0
             /\ channels'[hook'.channel].status = "subscribed"
     /\ \A k \in 1..Len(channels) :
          (/\ channels'[k].status # channels[k].status
           /\ channels'[k].status \in {"subscribed", "errored", "closed"}
           /\ k # hook.channel)
            => hookConn' = hookConn]_vars

\* ---- claims about useRecipeQueue ----

\* the recipe ids in the queue
Queued == {queue[i] : i \in 1..Len(queue)}

\* C27: once the fetches have settled after a replacing fetch (initial load
\* or refresh) was the last one made, the queue holds no recipe the user had
\* already swiped when that fetch was made; and the result of an older
\* fetch is never applied after the result of a newer one.
C27_QueueExcludesSwiped ==
  [][/\ (fetches' = {} /\ lastApplied' # 0 /\ paging'.offset = 0)
          => Queued' \cap lastSwiped' = {}
     /\ lastApplied' >= lastApplied]_vars

\* C30: when hasMore becomes false every recipe is in the queue or already
\* swiped by the user, and no recipe id occurs twice in the queue.
C30_PagingCoversEveryRecipe ==
  [][/\ (paging.hasMore /\ ~paging'.hasMore)
          => \A r \in QueueRecipes :
               r \in Queued' \/ r \in SwipedRecipeIds("A", "G1")'
     /\ Cardinality(Queued') = Len(queue')]_vars

====
